---- MODULE Spec2Model ----
(***************************************************************************)
(* The credit-market dashboard and its monitor, in six specifications.     *)
(*                                                                         *)
(* Spec: one refresh callback at a time: load_data (fetch, outer join,     *)
(* sort, forward-fill, two-year window), make_chart (z-score normalisation *)
(* and threshold projection), make_summary_table, and the latest-value     *)
(* table of app_old, for the revisions app.py, app_v9.py, app_v2.py and    *)
(* app_old.py.  load_data and make_summary_table of app.py and app_v9.py   *)
(* are the same text: variant "app" stands for both, and the figure        *)
(* records which of the two make_chart drew it.                            *)
(*                                                                         *)
(* MergeSpec: the merge and the window of load_data on named series joined *)
(* in any order, and make_summary_table on the result.  DashSpec:          *)
(* update_dashboard served to two overlapping requests.  MonitorSpec:      *)
(* CreditMonitor.run and its cache of last-seen dates, a run at a time.    *)
(* SummarySpec: send_summary.  NotifierSpec: TelegramNotifier.send with a  *)
(* bot that may fail, under runs that overlap or follow one another and    *)
(* under send_summary.                                                     *)
(*                                                                         *)
(* In Spec dates are whole years; in MergeSpec and MonitorSpec they are    *)
(* days.  Values are integers (consumer-credit growth and NFCI in          *)
(* hundredths).  A cell of a frame is <<v>> when present and << >> when    *)
(* absent (pandas NaN).  A z-score is kept exactly: its sign and the       *)
(* reduced fraction num/den of its square.                                 *)
(***************************************************************************)
EXTENDS Integers, Sequences, FiniteSets, TLC

VARIABLES variant, pc, fetched, failed, merged, indexMax, df, fig, table, error

vars == <<variant, pc, fetched, failed, merged, indexMax, df, fig, table, error>>

(* merge and window applied to named series joined in a given order, and   *)
(* the rows make_summary_table lists from the result.                      *)
VARIABLES columns, inputs, aligned, trimmed, rows, step

mergeVars == <<columns, inputs, aligned, trimmed, rows, step>>

(* Overlapping update_dashboard requests of one server: what FRED holds,   *)
(* the locals of each request, the outputs the page shows, and cfg.        *)
VARIABLES source, calls, layout, cfg

dashVars == <<source, calls, layout, cfg>>

(* CreditMonitor.run: the files under cache/, the clock, the locals of the *)
(* run, and the messages handed to TelegramNotifier.send.  seen is         *)
(* history: the latest date each indicator had in the last earlier run     *)
(* that read it.                                                           *)
VARIABLES cache, today, run, outbox, seen

monitorVars == <<cache, today, run, outbox, seen>>

(* send_summary: the status the page shows under the button, and the      *)
(* messages the callback in progress gave to TelegramNotifier.send, each   *)
(* with whether the bot delivered it.                                      *)
VARIABLES status, telegram

summaryVars == <<status, telegram>>

(* CreditMonitor.run as coroutines of one event loop: the locals of each,  *)
(* and as history the new-data alerts given to TelegramNotifier.send for   *)
(* each indicator, and how many times the bot failed to deliver.           *)
VARIABLES tasks, newlog, failures

taskVars == <<tasks, newlog, failures>>

allVars == <<vars, mergeVars, dashVars, monitorVars, summaryVars, taskVars>>

----------------------------------------------------------------------------
(* Configuration (class Config) and the sizes of the inputs.               *)

CREDIT_THRESHOLD == 10

HY_SPREAD_THRESHOLD == 400

NFCI_THRESHOLD == 0

SENTIMENT_THRESHOLD == 60

VIX_THRESHOLD == 30

RetentionYears == 2

MaxObs == 3

Dates == 0 .. (RetentionYears + 1)

Variants == {"app", "app_v2", "app_old"}

AllColumns == <<"cc", "hy", "nf", "sent", "vix">>

Columns(v) ==
    IF v = "app" THEN AllColumns ELSE SubSeq(AllColumns, 1, 3)

Threshold(c) ==
    CASE c = "cc"   -> CREDIT_THRESHOLD
      [] c = "hy"   -> HY_SPREAD_THRESHOLD
      [] c = "nf"   -> NFCI_THRESHOLD
      [] c = "sent" -> SENTIMENT_THRESHOLD
      [] c = "vix"  -> VIX_THRESHOLD

Values(c) == {Threshold(c), Threshold(c) + 1}

----------------------------------------------------------------------------
(* Sequences and sets.                                                     *)

ToSet(s) == {s[i] : i \in DOMAIN s}

RECURSIVE SortedSeq(_)
SortedSeq(S) ==
    IF S = {} THEN << >>
    ELSE LET m == CHOOSE x \in S : \A y \in S : x <= y
         IN  <<m>> \o SortedSeq(S \ {m})

Pos(s, x) == CHOOSE i \in DOMAIN s : s[i] = x

RECURSIVE SumLen(_)
SumLen(ss) ==
    IF ss = << >> THEN 0 ELSE Cardinality(DOMAIN Head(ss)) + SumLen(Tail(ss))

----------------------------------------------------------------------------
(* Frames: columns (names, in order), index (dates, in order) and, per     *)
(* column, the cells aligned with the index.                               *)

Absent == << >>

EmptyFrame == [columns |-> << >>, index |-> << >>, data |-> << >>]

NoSeries == << >>

Frame(c, series) ==
    LET idx == SortedSeq(DOMAIN series)
    IN  [columns |-> <<c>>,
         index   |-> idx,
         data    |-> [x \in {c} |-> [i \in DOMAIN idx |-> <<series[idx[i]]>>]]]

Reindex(col, oldIndex, newIndex) ==
    [i \in DOMAIN newIndex |->
        IF newIndex[i] \in ToSet(oldIndex)
        THEN col[Pos(oldIndex, newIndex[i])]
        ELSE Absent]

JoinInner(left, right) ==
    LET idx == SortedSeq(ToSet(left.index) \cap ToSet(right.index))
    IN  [columns |-> left.columns \o right.columns,
         index   |-> idx,
         data    |-> [c \in ToSet(left.columns) \cup ToSet(right.columns) |->
                        IF c \in ToSet(left.columns)
                        THEN Reindex(left.data[c], left.index, idx)
                        ELSE Reindex(right.data[c], right.index, idx)]]

JoinLeft(left, right) ==
    LET idx == left.index
    IN  [columns |-> left.columns \o right.columns,
         index   |-> idx,
         data    |-> [c \in ToSet(left.columns) \cup ToSet(right.columns) |->
                        IF c \in ToSet(left.columns)
                        THEN Reindex(left.data[c], left.index, idx)
                        ELSE Reindex(right.data[c], right.index, idx)]]

JoinRightFirst(left, right) ==
    LET idx == SortedSeq(ToSet(left.index) \cup ToSet(right.index))
    IN  [columns |-> right.columns \o left.columns,
         index   |-> idx,
         data    |-> [c \in ToSet(left.columns) \cup ToSet(right.columns) |->
                        IF c \in ToSet(left.columns)
                        THEN Reindex(left.data[c], left.index, idx)
                        ELSE Reindex(right.data[c], right.index, idx)]]

JoinOuter(left, right) ==
    LET idx == SortedSeq(ToSet(left.index) \cup ToSet(right.index))
    IN  [columns |-> left.columns \o right.columns,
         index   |-> idx,
         data    |-> [c \in ToSet(left.columns) \cup ToSet(right.columns) |->
                        IF c \in ToSet(left.columns)
                        THEN Reindex(left.data[c], left.index, idx)
                        ELSE Reindex(right.data[c], right.index, idx)]]

RECURSIVE JoinAll(_, _, _)
JoinAll(acc, cols, series) ==
    IF cols = << >> THEN acc
    ELSE JoinAll(JoinOuter(acc, Frame(Head(cols), Head(series))),
                 Tail(cols), Tail(series))

SortIndex(t) ==
    LET idx == SortedSeq(ToSet(t.index))
    IN  [columns |-> t.columns,
         index   |-> idx,
         data    |-> [c \in DOMAIN t.data |-> Reindex(t.data[c], t.index, idx)]]

RECURSIVE FillScan(_, _, _)
FillScan(col, i, last) ==
    IF i > Len(col) THEN << >>
    ELSE LET new == IF col[i] = Absent THEN last ELSE col[i]
         IN  <<new>> \o FillScan(col, i + 1, new)

NoFill(col) == col

FFillColumn(col) == FillScan(col, 1, Absent)

FFill(t) ==
    [columns |-> t.columns,
     index   |-> t.index,
     data    |-> [c \in DOMAIN t.data |-> FFillColumn(t.data[c])]]

Rows(t, keep) ==
    LET pos == SortedSeq(keep)
    IN  [columns |-> t.columns,
         index   |-> [i \in DOMAIN pos |-> t.index[pos[i]]],
         data    |-> [c \in DOMAIN t.data |->
                        [i \in DOMAIN pos |-> t.data[c][pos[i]]]]]

IsEmpty(t) == t.index = << >> \/ t.columns = << >>

----------------------------------------------------------------------------
(* Windowing: df[df.index >= (df.index.max() - pd.DateOffset(years=2))].   *)
(* The maximum of an empty DatetimeIndex is NaT, NaT minus an offset is    *)
(* NaT, and every comparison with NaT is false.  The maximum of an empty   *)
(* index that holds no datetimes is the float nan, and nan minus an offset *)
(* raises TypeError.                                                       *)

NotComputed == [state |-> "unset", date |-> 0]

NaT == [state |-> "NaT", date |-> 0]

FloatNaN == [state |-> "nan", date |-> 0]

Timestamp(d) == [state |-> "date", date |-> d]

IndexMax(idx) ==
    IF idx = << >> THEN NaT
    ELSE Timestamp(CHOOSE d \in ToSet(idx) : \A e \in ToSet(idx) : e <= d)

MinusOffset(ts) ==
    IF ts.state = "date" THEN Timestamp(ts.date - RetentionYears) ELSE NaT

AfterCutoff(d, cut) == cut.state = "date" /\ d > cut.date

AtOrAfterCutoff(d, cut) == cut.state = "date" /\ d >= cut.date

WindowRows(t, cut) ==
    Rows(t, {i \in DOMAIN t.index : AtOrAfterCutoff(t.index[i], cut)})

----------------------------------------------------------------------------
(* Statistics and z-scores.  DataFrame.mean/std and Series.mean/std skip   *)
(* absent cells; std is the sample standard deviation (ddof = 1).  With    *)
(* n values of sum s and sum of squares q, mean = s/n and                  *)
(* std^2 = (n*q - s*s) / (n*(n - ddof)), so                                *)
(* ((v - mean)/std)^2 = (n*v - s)^2 * (n - ddof) / (n * (n*q - s*s)).      *)
(* Floating point gives NaN for 0/0 and for any operand NaN (the mean of   *)
(* no value, the std of fewer than two), and +-inf for x/0.                *)

RECURSIVE Gcd(_, _)
Gcd(a, b) == IF b = 0 THEN a ELSE Gcd(b, a % b)

Sign(x) == IF x > 0 THEN 1 ELSE IF x < 0 THEN 0 - 1 ELSE 0

RECURSIVE SumCells(_, _)
SumCells(col, power) ==
    IF col = << >> THEN 0
    ELSE LET c == Head(col)
             v == IF c = Absent THEN 0
                  ELSE IF power = 1 THEN c[1] ELSE c[1] * c[1]
         IN  v + SumCells(Tail(col), power)

Stats(col) ==
    [n     |-> Cardinality({i \in DOMAIN col : col[i] # Absent}),
     sum   |-> SumCells(col, 1),
     sumsq |-> SumCells(col, 2)]

ZNaN == [kind |-> "NaN", sgn |-> 0, num |-> 0, den |-> 1]

ZInf(s) == [kind |-> "inf", sgn |-> s, num |-> 1, den |-> 0]

ZFinite(s, num, den) ==
    LET g == Gcd(num, den)
    IN  [kind |-> "finite", sgn |-> s, num |-> num \div g, den |-> den \div g]

ZScoreDdof(v, st, ddof) ==
    LET dev == st.n * v - st.sum
        d   == st.n * st.sumsq - st.sum * st.sum
    IN  IF st.n = 0 \/ st.n <= ddof THEN ZNaN
        ELSE IF d = 0 THEN (IF dev = 0 THEN ZNaN ELSE ZInf(Sign(dev)))
        ELSE ZFinite(Sign(dev), dev * dev * (st.n - ddof), st.n * d)

ZScorePopulation(v, st) == ZScoreDdof(v, st, 0)

ZScore(v, st) == ZScoreDdof(v, st, 1)

NormalizeColumn(col) ==
    [i \in DOMAIN col |->
        IF col[i] = Absent THEN Absent ELSE <<ZScore(col[i][1], Stats(col))>>]

Normalize(t) ==
    [columns |-> t.columns,
     index   |-> t.index,
     data    |-> [c \in DOMAIN t.data |-> NormalizeColumn(t.data[c])]]

ProjectThresholdPopulation(t, c) ==
    ZScoreDdof(Threshold(c), Stats(t.data[c]), 0)

ProjectThreshold(t, c) == ZScore(Threshold(c), Stats(t.data[c]))

----------------------------------------------------------------------------
(* make_chart.                                                             *)

Select(t, cols) ==
    [columns |-> cols,
     index   |-> t.index,
     data    |-> [c \in ToSet(cols) |-> t.data[c]]]

DropNa(t) ==
    Rows(t, {i \in DOMAIN t.index : \A c \in DOMAIN t.data : t.data[c][i] # Absent})

NoFig ==
    [kind |-> "none", rev |-> "none", x |-> << >>, y |-> << >>, hlines |-> << >>]

NoDataFig(rev) ==
    [kind |-> "no_data", rev |-> rev, x |-> << >>, y |-> << >>, hlines |-> << >>]

ChartRevisions(v) == IF v = "app" THEN {"app", "app_v9"} ELSE {v}

Charted(v) ==
    CASE v = "app"    -> <<"hy", "vix", "sent">>
      [] v = "app_v9" -> AllColumns
      [] OTHER        -> SubSeq(AllColumns, 1, 3)

ChartFrame(v, t) == IF v = "app" THEN DropNa(Select(t, Charted(v))) ELSE t

Figure(v, t) ==
    LET raw  == ChartFrame(v, t)
        norm == Normalize(raw)
    IN  [kind   |-> "figure",
         rev    |-> v,
         x      |-> norm.index,
         y      |-> [c \in ToSet(Charted(v)) |-> norm.data[c]],
         hlines |-> IF v = "app_v2" THEN << >>
                    ELSE [c \in ToSet(Charted(v)) |-> ProjectThreshold(raw, c)]]

----------------------------------------------------------------------------
(* make_summary_table and the latest-value table of app_old.               *)

Head3(s) == IF Len(s) <= 3 THEN s ELSE SubSeq(s, 1, 3)

RECURSIVE Tail3(_)
Tail3(s) == IF Len(s) <= 3 THEN s ELSE Tail3(Tail(s))

ColumnRecords(t, c) ==
    LET pos == SortedSeq({i \in DOMAIN t.index : t.data[c][i] # Absent})
    IN  Tail3([k \in DOMAIN pos |->
                  [Indicator |-> c,
                   Date      |-> t.index[pos[k]],
                   Value     |-> t.data[c][pos[k]][1]]])

RECURSIVE SummaryRecords(_, _)
SummaryRecords(t, cols) ==
    IF cols = << >> THEN << >>
    ELSE ColumnRecords(t, Head(cols)) \o SummaryRecords(t, Tail(cols))

LatestRecord(c, series) ==
    LET last == CHOOSE d \in DOMAIN series : \A e \in DOMAIN series : e <= d
    IN  [Indicator |-> c, Date |-> last, Value |-> series[last]]

----------------------------------------------------------------------------
(* cfg = Config(): the thresholds every revision reads.                    *)
Config ==
    [CREDIT_THRESHOLD    |-> CREDIT_THRESHOLD,
     HY_SPREAD_THRESHOLD |-> HY_SPREAD_THRESHOLD,
     NFCI_THRESHOLD      |-> NFCI_THRESHOLD,
     SENTIMENT_THRESHOLD |-> SENTIMENT_THRESHOLD,
     VIX_THRESHOLD       |-> VIX_THRESHOLD]

(* The parts of the state a specification does not run.                    *)
MergeOff ==
    /\ columns = << >>
    /\ inputs = << >>
    /\ aligned = EmptyFrame
    /\ trimmed = EmptyFrame
    /\ rows = << >>
    /\ step = "off"

DashOff ==
    /\ source = 0
    /\ calls = << >>
    /\ layout = << >>
    /\ cfg = Config

MonitorOff ==
    /\ cache = << >>
    /\ today = 0
    /\ run = << >>
    /\ outbox = << >>
    /\ seen = << >>

SummaryOff ==
    /\ status = "none"
    /\ telegram = << >>

TaskOff ==
    /\ tasks = << >>
    /\ newlog = << >>
    /\ failures = 0

----------------------------------------------------------------------------
(* The refresh callback (update_dashboard, and update_table of app_old),   *)
(* one step per stage.                                                     *)

(* The series a fetch may return: at most budget observations.             *)
SeriesOf(c, budget) ==
    UNION {[D -> Values(c)] : D \in {E \in SUBSET Dates : Cardinality(E) <= budget}}

(* No callback is running.                                                 *)
RefreshOff ==
    /\ variant = "none"
    /\ pc = "idle"
    /\ fetched = << >>
    /\ failed = {}
    /\ merged = EmptyFrame
    /\ indexMax = NotComputed
    /\ df = EmptyFrame
    /\ fig = NoFig
    /\ table = << >>
    /\ error = "none"

Init ==
    /\ variant = "none"
    /\ pc = "idle"
    /\ fetched = << >>
    /\ failed = {}
    /\ merged = EmptyFrame
    /\ indexMax = NotComputed
    /\ df = EmptyFrame
    /\ fig = NoFig
    /\ table = << >>
    /\ error = "none"
    /\ MergeOff
    /\ DashOff
    /\ MonitorOff
    /\ SummaryOff
    /\ TaskOff

(* The timer tick or the button: the callback starts.                      *)
Trigger(v) ==
    /\ pc = "idle"
    /\ variant' = v
    /\ pc' = "fetch"
    /\ UNCHANGED <<fetched, failed, merged, indexMax, df, fig, table, error>>
    /\ UNCHANGED <<mergeVars, dashVars, monitorVars, summaryVars, taskVars>>

NextColumn == Columns(variant)[Len(fetched) + 1]

(* fetch_*(cfg.START_DATE) returns the indicator's series: unique dates,   *)
(* no absent value (FredFetcher.fetch drops them), possibly no row at all. *)
FetchOk ==
    /\ pc = "fetch"
    /\ Len(fetched) < Len(Columns(variant))
    /\ \E series \in SeriesOf(NextColumn, MaxObs - SumLen(fetched)) :
          fetched' = Append(fetched, series)
    /\ pc' = IF Len(fetched') < Len(Columns(variant)) THEN "fetch"
             ELSE IF variant = "app_old" THEN "latest" ELSE "merge"
    /\ UNCHANGED <<variant, failed, merged, indexMax, df, fig, table, error>>
    /\ UNCHANGED <<mergeVars, dashVars, monitorVars, summaryVars, taskVars>>

(* The source cannot be reached: DataReader raises.  Only app_v2 catches   *)
(* the exception, and its load_data then returns pd.DataFrame().           *)
FetchFail ==
    /\ pc = "fetch"
    /\ Len(fetched) < Len(Columns(variant))
    /\ failed' = failed \cup {NextColumn}
    /\ IF variant = "app_v2"
       THEN /\ df' = EmptyFrame
            /\ pc' = "chart"
            /\ error' = error
       ELSE /\ error' = "SourceUnavailable"
            /\ pc' = "raised"
            /\ df' = df
    /\ UNCHANGED <<variant, fetched, merged, indexMax, fig, table>>
    /\ UNCHANGED <<mergeVars, dashVars, monitorVars, summaryVars, taskVars>>

(* The joins, sort_index and ffill of load_data.                           *)
Merge ==
    /\ pc = "merge"
    /\ merged' = FFill(SortIndex(
                    JoinAll(Frame(Head(Columns(variant)), Head(fetched)),
                            Tail(Columns(variant)), Tail(fetched))))
    /\ pc' = "window"
    /\ UNCHANGED <<variant, fetched, failed, indexMax, df, fig, table, error>>
    /\ UNCHANGED <<mergeVars, dashVars, monitorVars, summaryVars, taskVars>>

(* The two-year window of load_data, and its return.  Whether the index  *)
(* of a table without rows is a DatetimeIndex is up to what the source     *)
(* returned; when it is not, the subtraction raises, which only app_v2     *)
(* catches.                                                                *)
Window ==
    /\ pc = "window"
    /\ \/ /\ indexMax' = IndexMax(merged.index)
          /\ df' = WindowRows(merged, MinusOffset(indexMax'))
          /\ pc' = "chart"
          /\ error' = error
       \/ /\ merged.index = << >>
          /\ indexMax' = FloatNaN
          /\ IF variant = "app_v2"
             THEN /\ df' = EmptyFrame
                  /\ pc' = "chart"
                  /\ error' = error
             ELSE /\ df' = df
                  /\ pc' = "raised"
                  /\ error' = "TypeError"
    /\ UNCHANGED <<variant, fetched, failed, merged, fig, table>>
    /\ UNCHANGED <<mergeVars, dashVars, monitorVars, summaryVars, taskVars>>

(* make_chart(df).  app_v2's "if df.empty: ..." falls through, and the     *)
(* frame of its failed load has none of the columns the traces read.       *)
MakeChart ==
    /\ pc = "chart"
    /\ \E rev \in ChartRevisions(variant) :
          IF rev # "app_v2" /\ IsEmpty(df)
          THEN /\ fig' = NoDataFig(rev)
               /\ pc' = "table"
               /\ error' = error
          ELSE IF ToSet(Charted(rev)) \subseteq ToSet(df.columns)
          THEN /\ fig' = Figure(rev, df)
               /\ pc' = "table"
               /\ error' = error
          ELSE /\ fig' = fig
               /\ pc' = "raised"
               /\ error' = "KeyError"
    /\ UNCHANGED <<variant, fetched, failed, merged, indexMax, df, table>>
    /\ UNCHANGED <<mergeVars, dashVars, monitorVars, summaryVars, taskVars>>

(* make_summary_table(df).                                                 *)
MakeSummaryTable ==
    /\ pc = "table"
    /\ table' = SummaryRecords(df, df.columns)
    /\ pc' = "return"
    /\ UNCHANGED <<variant, fetched, failed, merged, indexMax, df, fig, error>>
    /\ UNCHANGED <<mergeVars, dashVars, monitorVars, summaryVars, taskVars>>

(* load_data of app_old: the last row of each series.                      *)
LatestTable ==
    /\ pc = "latest"
    /\ IF \E i \in DOMAIN fetched : fetched[i] = NoSeries
       THEN /\ error' = "IndexError"
            /\ pc' = "raised"
            /\ table' = table
       ELSE /\ table' = [i \in DOMAIN fetched |->
                            LatestRecord(Columns(variant)[i], fetched[i])]
            /\ pc' = "return"
            /\ error' = error
    /\ UNCHANGED <<variant, fetched, failed, merged, indexMax, df, fig>>
    /\ UNCHANGED <<mergeVars, dashVars, monitorVars, summaryVars, taskVars>>

(* The callback returns its outputs, or the exception leaves it; the next  *)
(* refresh starts from scratch.                                            *)
Return ==
    /\ pc = "return"
    /\ variant' = "none"
    /\ pc' = "idle"
    /\ fetched' = << >>
    /\ failed' = {}
    /\ merged' = EmptyFrame
    /\ indexMax' = NotComputed
    /\ df' = EmptyFrame
    /\ fig' = NoFig
    /\ table' = << >>
    /\ error' = "none"
    /\ UNCHANGED <<mergeVars, dashVars, monitorVars, summaryVars, taskVars>>

Abort ==
    /\ pc = "raised"
    /\ variant' = "none"
    /\ pc' = "idle"
    /\ fetched' = << >>
    /\ failed' = {}
    /\ merged' = EmptyFrame
    /\ indexMax' = NotComputed
    /\ df' = EmptyFrame
    /\ fig' = NoFig
    /\ table' = << >>
    /\ error' = "none"
    /\ UNCHANGED <<mergeVars, dashVars, monitorVars, summaryVars, taskVars>>

Next ==
    \/ \E v \in Variants : Trigger(v)
    \/ FetchOk
    \/ FetchFail
    \/ Merge
    \/ Window
    \/ MakeChart
    \/ MakeSummaryTable
    \/ LatestTable
    \/ Return
    \/ Abort

Spec == Init /\ [][Next]_vars

----------------------------------------------------------------------------
(* The inputs of the refresh in progress, as sets.                         *)

Fetched(c) == fetched[Pos(Columns(variant), c)]

InputDates == UNION {DOMAIN fetched[i] : i \in DOMAIN fetched}

Merging == variant \in {"app", "app_v2"}

(* load_data has just joined, sorted and filled what it fetched.           *)
MergeDone == Merging /\ pc = "window" /\ failed = {}

At(t, c, d) == t.data[c][Pos(t.index, d)]

(* C1: once load_data has joined, sorted and filled the fetched series,    *)
(* the dates of the merged table, before windowing, are exactly the union  *)
(* of the dates of the fetched series, each once.                          *)
C1_UnionProperty ==
    MergeDone =>
        /\ ToSet(merged.index) = InputDates
        /\ Len(merged.index) = Cardinality(InputDates)

C1_Witness ==
    /\ MergeDone
    /\ \E i, j \in DOMAIN fetched :
          /\ DOMAIN fetched[i] \ DOMAIN fetched[j] # {}
          /\ DOMAIN fetched[j] \ DOMAIN fetched[i] # {}
    /\ ToSet(merged.index) = InputDates

LastObservation(series, d) ==
    LET before == {e \in DOMAIN series : e <= d}
    IN  IF before = {} THEN Absent
        ELSE <<series[CHOOSE e \in before : \A f \in before : f <= e]>>

(* C2: in the merged table every column holds, at every date, its own      *)
(* observation of that date when it has one, and otherwise its most recent *)
(* earlier observation, or nothing when it has none yet.                   *)
C2_ForwardFill ==
    MergeDone =>
        \A c \in ToSet(Columns(variant)) : \A d \in ToSet(merged.index) :
            At(merged, c, d) = LastObservation(Fetched(c), d)

C2_Witness ==
    /\ MergeDone
    /\ \E c \in ToSet(Columns(variant)) : \E d \in ToSet(merged.index) :
          /\ d \notin DOMAIN Fetched(c)
          /\ At(merged, c, d) # Absent
          /\ At(merged, c, d) = LastObservation(Fetched(c), d)
    /\ \E c \in ToSet(Columns(variant)) : \E d \in ToSet(merged.index) :
          /\ Fetched(c) # NoSeries
          /\ At(merged, c, d) = Absent

(* load_data has just returned the windowed table.                         *)
WindowDone ==
    /\ Merging
    /\ pc = "chart"
    /\ failed = {}
    /\ indexMax.state # "nan"

MaxDate(S) == CHOOSE d \in S : \A e \in S : e <= d

(* C3: of a merged table with rows, whose latest date is M, load_data      *)
(* returns exactly the rows dated from M - 2 years to M, the row dated     *)
(* M - 2 years included, with their merged values.                         *)
C3_WindowBoundary ==
    (WindowDone /\ merged.index # << >>) =>
        LET M == MaxDate(ToSet(merged.index))
        IN  /\ ToSet(df.index) =
                  {d \in ToSet(merged.index) : M - RetentionYears <= d /\ d <= M}
            /\ Len(df.index) = Cardinality(ToSet(df.index))
            /\ df.columns = merged.columns
            /\ \A c \in ToSet(df.columns) : \A d \in ToSet(df.index) :
                  At(df, c, d) = At(merged, c, d)

C3_Witness ==
    /\ WindowDone
    /\ merged.index # << >>
    /\ LET M == MaxDate(ToSet(merged.index))
       IN  /\ M - RetentionYears \in ToSet(df.index)
           /\ \E d \in ToSet(merged.index) :
                 d < M - RetentionYears /\ d \notin ToSet(df.index)

----------------------------------------------------------------------------
(* make_chart has just drawn a figure from the windowed table df.          *)

ChartDone ==
    /\ Merging
    /\ pc = "table"
    /\ fig.kind = "figure"
    /\ ~IsEmpty(df)

(* The raw values of column c at the dates the figure shows.               *)
Shown(c) == [i \in DOMAIN fig.x |-> At(df, c, fig.x[i])]

NotANumber(z) == z.kind # "finite"

(* Fewer than two values, or values that are all equal.                    *)
Degenerate(st) == st.n < 2 \/ st.n * st.sumsq - st.sum * st.sum = 0

(* C4: the figure shows every value the windowed table holds in a charted  *)
(* column, as its z-score under the mean and the sample standard deviation *)
(* of all the values that column holds in the windowed table, whatever the *)
(* other columns hold in those rows.                                       *)
C4_Normalization ==
    ChartDone =>
        \A c \in ToSet(Charted(fig.rev)) : \A i \in DOMAIN df.index :
            df.data[c][i] # Absent =>
                /\ df.index[i] \in ToSet(fig.x)
                /\ fig.y[c][Pos(fig.x, df.index[i])] =
                       <<ZScore(df.data[c][i][1], Stats(df.data[c]))>>

(* C5: the threshold line of a charted column is the z-score of its raw    *)
(* threshold under the statistics of the values the figure shows for that  *)
(* column, which are the statistics the shown values are normalised with;  *)
(* so a shown value equal to the raw threshold lies on the line.           *)
C5_ThresholdConsistency ==
    (ChartDone /\ fig.rev # "app_v2") =>
        \A c \in ToSet(Charted(fig.rev)) :
            /\ fig.hlines[c] = ZScore(Threshold(c), Stats(Shown(c)))
            /\ \A i \in DOMAIN fig.x :
                  /\ Shown(c)[i] # Absent =>
                        fig.y[c][i] = <<ZScore(Shown(c)[i][1], Stats(Shown(c)))>>
                  /\ (Shown(c)[i] = <<Threshold(c)>> /\ ~Degenerate(Stats(Shown(c)))) =>
                        fig.y[c][i] = <<fig.hlines[c]>>

C5_Witness ==
    /\ ChartDone
    /\ fig.rev # "app_v2"
    /\ \E c \in ToSet(Charted(fig.rev)) : \E i, j \in DOMAIN fig.x :
          /\ Shown(c)[i] = <<Threshold(c)>>
          /\ fig.hlines[c].kind = "finite"
          /\ fig.y[c][i] = <<fig.hlines[c]>>
          /\ fig.y[c][j] # Absent
          /\ fig.y[c][j] # fig.y[c][i]

(* C6: when a charted column of a windowed table with rows holds a single  *)
(* value, or only equal values, make_chart signals DegenerateColumn and    *)
(* the figure holds no NaN and no infinite z-score for that column.        *)
C6_DegenerateGuard ==
    ChartDone =>
        \A c \in ToSet(Charted(fig.rev)) :
            (Stats(df.data[c]).n >= 1 /\ Degenerate(Stats(df.data[c]))) =>
                /\ error = "DegenerateColumn"
                /\ \A i \in DOMAIN fig.x :
                      fig.y[c][i] # Absent => ~NotANumber(fig.y[c][i][1])

(* C7: projecting the threshold of a column whose standard deviation in    *)
(* the window is zero or undefined fails with DegenerateColumn, and no     *)
(* threshold line is drawn at NaN or at infinity.                          *)
C7_ThresholdGuard ==
    (ChartDone /\ fig.rev # "app_v2") =>
        \A c \in ToSet(Charted(fig.rev)) :
            /\ Degenerate(Stats(Shown(c))) => error = "DegenerateColumn"
            /\ ~NotANumber(fig.hlines[c])

(* C8: when every fetched series is empty, the window step of load_data    *)
(* returns an empty table, raises nothing, and does not take the maximum   *)
(* of the empty index.                                                     *)
C8_EmptyWindow ==
    (/\ Merging
     /\ failed = {}
     /\ pc \in {"chart", "table", "return", "raised"}
     /\ merged.index = << >>) =>
        /\ IsEmpty(df)
        /\ error = "none"
        /\ indexMax = NotComputed

(* A fetch of app_old, or the merge of the other revisions, gave no row.   *)
ZeroRows ==
    \/ /\ variant = "app_old"
       /\ pc \in {"latest", "return", "raised"}
       /\ failed = {}
       /\ \E i \in DOMAIN fetched : fetched[i] = NoSeries
    \/ /\ Merging
       /\ pc \in {"chart", "table", "return", "raised"}
       /\ failed = {}
       /\ merged.index = << >>

(* C9: when a fetch or the merge gave no row, every later stage of the     *)
(* refresh completes without raising, and the refresh ends with nothing    *)
(* to show.                                                                *)
C9_EmptyInEmptyOut ==
    ZeroRows =>
        /\ error = "none"
        /\ pc = "return" => (fig.x = << >> /\ table = << >>)

(* C10: when the fetch of one indicator fails after another indicator's    *)
(* fetch returned rows, load_data raises nothing and returns the merged    *)
(* table of the other indicators, with rows, the failed indicator's column *)
(* absent at every date.                                                   *)
C10_PartialFailure ==
    (/\ failed # {}
     /\ pc \in {"chart", "table", "return", "raised"}
     /\ \E i \in DOMAIN fetched : fetched[i] # NoSeries) =>
        /\ error = "none"
        /\ df.columns = Columns(variant)
        /\ df.index # << >>
        /\ \A c \in failed : \A i \in DOMAIN df.index : df.data[c][i] = Absent

----------------------------------------------------------------------------
(* The source of every indicator is down: the first fetch of load_data     *)
(* raises, and no later fetch is attempted.                                *)
TotalFailure ==
    /\ pc \in {"chart", "table", "return", "raised"}
    /\ failed # {}
    /\ fetched = << >>

(* C11: when the sources of all indicators are unavailable, the refresh    *)
(* raises nothing: load_data returns a table without rows and the figure   *)
(* is the "no data" figure.                                                *)
C11_TotalFailure ==
    TotalFailure =>
        /\ error = "none"
        /\ IsEmpty(df)
        /\ pc \in {"table", "return"} => fig.kind = "no_data"

----------------------------------------------------------------------------
StrictlyAscending(idx) ==
    \A i, j \in DOMAIN idx : i < j => idx[i] < idx[j]

(* C15: the merged table and the windowed table load_data returns have     *)
(* their rows in strictly ascending date order, no date twice, and their   *)
(* columns in the order the indicators are joined in.                      *)
C15_Ordering ==
    /\ MergeDone =>
          /\ StrictlyAscending(merged.index)
          /\ merged.columns = Columns(variant)
    /\ WindowDone =>
          /\ StrictlyAscending(df.index)
          /\ df.columns = Columns(variant)

C15_Witness ==
    /\ WindowDone
    /\ variant = "app"
    /\ Len(df.index) >= 2
    /\ StrictlyAscending(df.index)
    /\ df.columns = AllColumns
    /\ \E i, j \in DOMAIN fetched :
          /\ i < j
          /\ \E d \in DOMAIN fetched[i] : \E e \in DOMAIN fetched[j] : e < d

----------------------------------------------------------------------------
(* Reconstruction v' = z * std + mean, exactly.  With dev = n*v' - sum and *)
(* d = n*sumsq - sum^2, z^2 = num/den and std^2 = d / (n*(n-1)) give       *)
(* dev^2 = n * num * d / (den * (n-1)), and dev has the sign of z.         *)
ISqrt(q) == CHOOSE r \in 0 .. q : r * r <= q /\ (r + 1) * (r + 1) > q

Reconstruct(z, st) ==
    LET d    == st.n * st.sumsq - st.sum * st.sum
        dev2 == (st.n * z.num * d) \div (z.den * (st.n - 1))
        dev  == z.sgn * ISqrt(dev2)
    IN  [exact |-> /\ (st.n * z.num * d) % (z.den * (st.n - 1)) = 0
                   /\ ISqrt(dev2) * ISqrt(dev2) = dev2
                   /\ (st.sum + dev) % st.n = 0,
         value |-> (st.sum + dev) \div st.n]

(* C16: for every shown column whose standard deviation is defined and not *)
(* zero, z * std + mean, with the mean and the sample standard deviation   *)
(* of the shown values, gives back exactly the raw value of each row.      *)
C16_RoundTrip ==
    ChartDone =>
        \A c \in ToSet(Charted(fig.rev)) :
            ~Degenerate(Stats(Shown(c))) =>
                \A i \in DOMAIN fig.x :
                    Shown(c)[i] # Absent =>
                        /\ fig.y[c][i] # Absent
                        /\ fig.y[c][i][1].kind = "finite"
                        /\ Reconstruct(fig.y[c][i][1], Stats(Shown(c))) =
                               [exact |-> TRUE, value |-> Shown(c)[i][1]]

C16_Witness ==
    /\ ChartDone
    /\ \E c \in ToSet(Charted(fig.rev)) : \E i, j \in DOMAIN fig.x :
          /\ ~Degenerate(Stats(Shown(c)))
          /\ Shown(c)[i] # Absent
          /\ Shown(c)[j] # Absent
          /\ Shown(c)[i] # Shown(c)[j]
          /\ Reconstruct(fig.y[c][i][1], Stats(Shown(c))).value = Shown(c)[i][1]
          /\ Reconstruct(fig.y[c][j][1], Stats(Shown(c))).value = Shown(c)[j][1]

----------------------------------------------------------------------------
(* The joins, the fill and the window of load_data applied to three named  *)
(* series joined in any order.  Dates are days counted from January 1st.   *)
(* The series are those of the scenario (A monthly, B and C more often) or *)
(* any part of them; values of A and C are in tenths.                      *)

ScenarioNames == <<"A", "B", "C">>

Scenario ==
    [A |-> [d \in {0, 31}     |-> IF d = 0 THEN 10 ELSE 12],
     B |-> [d \in {0, 14, 31} |-> IF d = 0 THEN 100 ELSE IF d = 14 THEN 105 ELSE 110],
     C |-> [d \in {0, 7, 31}  |-> IF d = 0 THEN 1 ELSE IF d = 7 THEN 2 ELSE 0 - 1]]

SubSeries(series) == {[d \in D |-> series[d]] : D \in SUBSET DOMAIN series}

Orders(names) ==
    {o \in [DOMAIN names -> ToSet(names)] :
        \A i, j \in DOMAIN names : o[i] = o[j] => i = j}

(* cc[[..]].join(hy[[..]], how="outer").join(...), sort_index(), ffill().  *)
MergeInOrder(cols, ins) ==
    FFill(SortIndex(
        JoinAll(Frame(Head(cols), ins[Head(cols)]),
                Tail(cols),
                [i \in 1 .. (Len(cols) - 1) |-> ins[cols[i + 1]]])))

(* index.max() - pd.DateOffset(years=2), on a calendar of days.            *)
MinusOffsetDays(ts) ==
    IF ts.state = "date" THEN Timestamp(ts.date - RetentionYears * 365) ELSE NaT

(* The series to merge: for each name, any part of its scenario series.    *)
ScenarioInputs ==
    LET parts == UNION {SubSeries(Scenario[c]) : c \in ToSet(ScenarioNames)}
    IN  {ins \in [ToSet(ScenarioNames) -> parts] :
            \A c \in ToSet(ScenarioNames) : ins[c] \in SubSeries(Scenario[c])}

MergeInit ==
    /\ columns \in Orders(ScenarioNames)
    /\ inputs \in ScenarioInputs
    /\ aligned = EmptyFrame
    /\ trimmed = EmptyFrame
    /\ rows = << >>
    /\ step = "merge"
    /\ RefreshOff
    /\ DashOff
    /\ MonitorOff
    /\ SummaryOff
    /\ TaskOff

Align ==
    /\ step = "merge"
    /\ aligned' = MergeInOrder(columns, inputs)
    /\ step' = "window"
    /\ UNCHANGED <<columns, inputs, trimmed, rows>>
    /\ UNCHANGED <<vars, dashVars, monitorVars, summaryVars, taskVars>>

(* The row mask of load_data; on a table without rows whose index holds no *)
(* datetimes the subtraction raises TypeError.                             *)
Trim ==
    /\ step = "window"
    /\ \/ /\ trimmed' = WindowRows(aligned, MinusOffsetDays(IndexMax(aligned.index)))
          /\ step' = "done"
       \/ /\ aligned.index = << >>
          /\ trimmed' = trimmed
          /\ step' = "raised"
    /\ UNCHANGED <<columns, inputs, aligned, rows>>
    /\ UNCHANGED <<vars, dashVars, monitorVars, summaryVars, taskVars>>

(* make_summary_table(df) on the table load_data returned.                 *)
Summarise ==
    /\ step = "done"
    /\ rows' = SummaryRecords(trimmed, trimmed.columns)
    /\ step' = "listed"
    /\ UNCHANGED <<columns, inputs, aligned, trimmed>>
    /\ UNCHANGED <<vars, dashVars, monitorVars, summaryVars, taskVars>>

MergeNext == Align \/ Trim \/ Summarise

MergeSpec == MergeInit /\ [][MergeNext]_allVars

(* The series have been joined in the order columns, sorted and filled.    *)
Aligned == step = "window"

(* C12: joined in any order, the named series give the table that joining  *)
(* them in the order A, B, C gives: the same dates and, at every date and  *)
(* column, the same value or the same absence.                             *)
C12_OrderIndependence ==
    Aligned =>
        LET ref == MergeInOrder(ScenarioNames, inputs)
        IN  /\ aligned.index = ref.index
            /\ ToSet(aligned.columns) = ToSet(ref.columns)
            /\ \A c \in ToSet(ScenarioNames) : \A i \in DOMAIN ref.index :
                  aligned.data[c][i] = ref.data[c][i]

C12_Witness ==
    /\ Aligned
    /\ columns = <<"C", "A", "B">>
    /\ aligned.columns = columns
    /\ DOMAIN inputs["C"] = {7}
    /\ DOMAIN inputs["A"] = {0, 31}
    /\ DOMAIN inputs["B"] = {14}
    /\ aligned.index = <<0, 7, 14, 31>>
    /\ aligned.data["B"] = <<Absent, Absent, <<105>>, <<105>>>>

(* C17, as stated: the merge of the scenario's three series has seven      *)
(* dates.                                                                  *)
C17_ScenarioSevenDates ==
    (Aligned /\ inputs = Scenario) => Len(aligned.index) = 7

(* C17, amended: the merge of the scenario's three series has the four     *)
(* dates January 1st, 8th, 15th and February 1st, each once.               *)
C17_ScenarioFourDates ==
    (Aligned /\ inputs = Scenario) => aligned.index = <<0, 7, 14, 31>>

C17_Witness ==
    /\ Aligned
    /\ inputs = Scenario
    /\ Len(aligned.index) = 4

(* C18: in the merge of the scenario's series column A holds 1.0 on        *)
(* January 15th, and the window drops the row of January 1st, more than 20 *)
(* days before February 1st, and keeps January 15th and February 1st.      *)
C18_ScenarioValues ==
    (step = "done" /\ inputs = Scenario) =>
        /\ At(aligned, "A", 14) = <<10>>
        /\ 0 \notin ToSet(trimmed.index)
        /\ 14 \in ToSet(trimmed.index)
        /\ 31 \in ToSet(trimmed.index)

(* make_summary_table has listed the rows of the table load_data returned. *)
Listed == step = "listed"

(* The records of rows for column c, in the order listed.                  *)
RecordsOf(c) == SelectSeq(rows, LAMBDA r : r.Indicator = c)

(* The positions of table t where column c holds a value.                  *)
Present(t, c) == {i \in DOMAIN t.index : t.data[c][i] # Absent}

----------------------------------------------------------------------------
(* update_dashboard of app.py served to overlapping requests: the timer    *)
(* tick of hourly_refresh and a reload of the page.  Each request has its  *)
(* own locals (df, fig, table, cards); the module globals are cfg and app. *)
(* The five fetches of one load_data are taken together: FRED publishes    *)
(* between requests.                                                       *)

MaxReleases == 2

Requests == {"tick", "reload"}

(* What FRED holds for an indicator once k dates have been published.      *)
SourceSeries(c, k) == [d \in 0 .. (k - 1) |-> Threshold(c) + (d % 2)]

Fetches(k) == [i \in DOMAIN AllColumns |-> SourceSeries(AllColumns[i], k)]

(* load_data(): the joins, the fill and the window, of fetched series.     *)
LoadData(series) ==
    LET m == FFill(SortIndex(
                 JoinAll(Frame(Head(AllColumns), Head(series)),
                         Tail(AllColumns), Tail(series))))
    IN  WindowRows(m, MinusOffset(IndexMax(m.index)))

(* make_chart(df) of app.py.                                               *)
ChartOf(t) == IF IsEmpty(t) THEN NoDataFig("app") ELSE Figure("app", t)

(* make_threshold_cards(cfg): one card per indicator, "< x" or "> x".      *)
ThresholdCards(c) ==
    <<[Indicator |-> "cc",   Direction |-> "<", Value |-> c.CREDIT_THRESHOLD],
      [Indicator |-> "hy",   Direction |-> ">", Value |-> c.HY_SPREAD_THRESHOLD],
      [Indicator |-> "nf",   Direction |-> ">", Value |-> c.NFCI_THRESHOLD],
      [Indicator |-> "sent", Direction |-> "<", Value |-> c.SENTIMENT_THRESHOLD],
      [Indicator |-> "vix",  Direction |-> ">", Value |-> c.VIX_THRESHOLD]>>

NoLocals ==
    [pc |-> "idle", fetched |-> << >>, df |-> EmptyFrame, fig |-> NoFig,
     table |-> << >>, cards |-> << >>]

NoLayout ==
    [credit_chart |-> NoFig, summary_table |-> << >>, threshold_cards |-> << >>]

(* df = load_data(): a local of the request.                               *)
BindFrameGlobal(cs, r, t) == [q \in DOMAIN cs |-> [cs[q] EXCEPT !.df = t]]

BindFrame(cs, r, t) == [cs EXCEPT ![r].df = t]

(* return fig, table, cards: one response sets the three outputs.          *)
ResponseChartFirst(old, loc) == [old EXCEPT !.credit_chart = loc.fig]

Response(old, loc) ==
    [credit_chart    |-> loc.fig,
     summary_table   |-> loc.table,
     threshold_cards |-> loc.cards]

DashInit ==
    /\ source = 0
    /\ calls = [r \in Requests |-> NoLocals]
    /\ layout = NoLayout
    /\ cfg = Config
    /\ RefreshOff
    /\ MergeOff
    /\ MonitorOff
    /\ SummaryOff
    /\ TaskOff

(* FRED publishes the next date of every indicator.                        *)
Release ==
    /\ source < MaxReleases
    /\ source' = source + 1
    /\ UNCHANGED <<calls, layout, cfg>>
    /\ UNCHANGED <<vars, mergeVars, monitorVars, summaryVars, taskVars>>

DashTrigger(r) ==
    /\ calls[r].pc = "idle"
    /\ calls' = [calls EXCEPT ![r].pc = "load"]
    /\ UNCHANGED <<source, layout, cfg>>
    /\ UNCHANGED <<vars, mergeVars, monitorVars, summaryVars, taskVars>>

(* df = load_data(); a failed fetch, or the window of a table without      *)
(* rows raising TypeError, ends the request with no response.              *)
DashLoad(r) ==
    /\ calls[r].pc = "load"
    /\ \/ calls' = BindFrame([calls EXCEPT ![r].pc = "chart",
                                           ![r].fetched = Fetches(source)],
                             r, LoadData(Fetches(source)))
       \/ calls' = [calls EXCEPT ![r] = NoLocals]
    /\ UNCHANGED <<source, layout, cfg>>
    /\ UNCHANGED <<vars, mergeVars, monitorVars, summaryVars, taskVars>>

DashChart(r) ==
    /\ calls[r].pc = "chart"
    /\ calls' = [calls EXCEPT ![r].pc = "table",
                              ![r].fig = ChartOf(calls[r].df)]
    /\ UNCHANGED <<source, layout, cfg>>
    /\ UNCHANGED <<vars, mergeVars, monitorVars, summaryVars, taskVars>>

DashTable(r) ==
    /\ calls[r].pc = "table"
    /\ calls' = [calls EXCEPT ![r].pc = "cards",
                              ![r].table = SummaryRecords(calls[r].df, calls[r].df.columns)]
    /\ UNCHANGED <<source, layout, cfg>>
    /\ UNCHANGED <<vars, mergeVars, monitorVars, summaryVars, taskVars>>

DashCards(r) ==
    /\ calls[r].pc = "cards"
    /\ calls' = [calls EXCEPT ![r].pc = "return",
                              ![r].cards = ThresholdCards(cfg)]
    /\ UNCHANGED <<source, layout, cfg>>
    /\ UNCHANGED <<vars, mergeVars, monitorVars, summaryVars, taskVars>>

DashReturn(r) ==
    /\ calls[r].pc = "return"
    /\ layout' = Response(layout, calls[r])
    /\ calls' = [calls EXCEPT ![r] = NoLocals]
    /\ UNCHANGED <<source, cfg>>
    /\ UNCHANGED <<vars, mergeVars, monitorVars, summaryVars, taskVars>>

DashNext ==
    \/ Release
    \/ \E r \in Requests :
          \/ DashTrigger(r)
          \/ DashLoad(r)
          \/ DashChart(r)
          \/ DashTable(r)
          \/ DashCards(r)
          \/ DashReturn(r)

DashSpec == DashInit /\ [][DashNext]_allVars

(* The three outputs one refresh computes from the series it fetched.      *)
OutputsOf(series) ==
    [credit_chart    |-> ChartOf(LoadData(series)),
     summary_table   |-> SummaryRecords(LoadData(series), AllColumns),
     threshold_cards |-> ThresholdCards(Config)]

(* C13: whatever the interleaving of the two requests, the page shows      *)
(* nothing yet, or the chart, the table and the cards that one refresh     *)
(* computed from one load_data result.                                     *)
C13_AtomicPublication ==
    \/ layout = NoLayout
    \/ \E k \in 0 .. MaxReleases : layout = OutputsOf(Fetches(k))

C13_Witness ==
    \E r, q \in Requests :
        /\ calls[r].pc = "return"
        /\ calls[q].pc \in {"table", "cards", "return"}
        /\ calls[r].fetched # calls[q].fetched
        /\ layout # NoLayout
        /\ layout.credit_chart # calls[r].fig
        /\ layout.summary_table # calls[r].table
        /\ \E k \in 0 .. MaxReleases : layout = OutputsOf(Fetches(k))

(* C14: no step of a refresh changes cfg, and at every stage the locals of *)
(* a request are what load_data, make_chart, make_summary_table and        *)
(* make_threshold_cards give for the series that request fetched and the   *)
(* configuration, whatever the other request did meanwhile.                *)
C14_NoSharedState ==
    /\ cfg = Config
    /\ \A r \in Requests :
          /\ calls[r].pc \in {"chart", "table", "cards", "return"} =>
                calls[r].df = LoadData(calls[r].fetched)
          /\ calls[r].pc \in {"table", "cards", "return"} =>
                calls[r].fig = OutputsOf(calls[r].fetched).credit_chart
          /\ calls[r].pc \in {"cards", "return"} =>
                calls[r].table = OutputsOf(calls[r].fetched).summary_table
          /\ calls[r].pc = "return" =>
                calls[r].cards = OutputsOf(calls[r].fetched).threshold_cards

C14_Witness ==
    \E r, q \in Requests :
        /\ calls[r].pc = "return"
        /\ calls[q].pc = "table"
        /\ calls[r].fetched # calls[q].fetched
        /\ calls[r].df # calls[q].df
        /\ calls[q].df = LoadData(calls[q].fetched)
        /\ calls[r].table = OutputsOf(calls[r].fetched).summary_table

----------------------------------------------------------------------------
(* CreditMonitor.run of credit_monitor_extended: for consumer credit, the  *)
(* high-yield spread, NFCI and consumer sentiment in turn, fetch, compare  *)
(* the latest date with the marker under cache/, and send the alerts.      *)
(* Dates are days; outbox holds the messages handed to                     *)
(* TelegramNotifier.send during the run in progress.                       *)

STALE_DAYS == 90

MonitorIndicators == SubSeq(AllColumns, 1, 4)

CacheFile(c) ==
    CASE c = "cc"   -> "consumer_credit.txt"
      [] c = "hy"   -> "hy_spread.txt"
      [] c = "nf"   -> "nfci.txt"
      [] c = "sent" -> "consumer_sentiment.txt"

MonitorDates == 0 .. (MaxReleases - 1)

Todays == {STALE_DAYS + d : d \in MonitorDates}

Readings(c) == {Threshold(c) - 1, Threshold(c), Threshold(c) + 1}

MonitorSeries(c) == UNION {[D -> Readings(c)] : D \in SUBSET MonitorDates}

(* str(latest_date), the text written to and read back from the file.      *)
DateText(d) == <<"date", d>>

CheckStalenessInclusive(now, latest) == now - latest >= STALE_DAYS

(* _check_staleness(latest_date).                                          *)
CheckStaleness(now, latest) == now - latest > STALE_DAYS

(* _compare_new_data(df, cache_file): the result and the files after it.   *)
CompareNoCreate(files, f, latest) ==
    IF f \notin DOMAIN files
    THEN [new |-> TRUE, files |-> files]
    ELSE IF files[f] # DateText(latest)
    THEN [new |-> TRUE, files |-> [files EXCEPT ![f] = DateText(latest)]]
    ELSE [new |-> FALSE, files |-> files]

CompareNoWrite(files, f, latest) ==
    IF f \notin DOMAIN files
    THEN [new |-> TRUE, files |-> files @@ (f :> DateText(latest))]
    ELSE IF files[f] # DateText(latest)
    THEN [new |-> TRUE, files |-> files]
    ELSE [new |-> FALSE, files |-> files]

CompareNewData(files, f, latest) ==
    IF f \notin DOMAIN files
    THEN [new |-> TRUE, files |-> files @@ (f :> DateText(latest))]
    ELSE IF files[f] # DateText(latest)
    THEN [new |-> TRUE, files |-> [files EXCEPT ![f] = DateText(latest)]]
    ELSE [new |-> FALSE, files |-> files]

(* The conditions of the breach alerts of run.                             *)
BreachOrEqual(c, v, conf) ==
    CASE c = "cc"   -> v <= conf.CREDIT_THRESHOLD
      [] c = "hy"   -> v >= conf.HY_SPREAD_THRESHOLD
      [] c = "nf"   -> v >= conf.NFCI_THRESHOLD
      [] c = "sent" -> v <= conf.SENTIMENT_THRESHOLD

Breach(c, v, conf) ==
    CASE c = "cc"   -> v < conf.CREDIT_THRESHOLD
      [] c = "hy"   -> v > conf.HY_SPREAD_THRESHOLD
      [] c = "nf"   -> v > conf.NFCI_THRESHOLD
      [] c = "sent" -> v < conf.SENTIMENT_THRESHOLD

Message(kind, c) == [kind |-> kind, indicator |-> c]

NoRun ==
    [pc |-> "idle", i |-> 1, latest_date |-> 0, latest_value |-> 0,
     new |-> FALSE, stale |-> FALSE, error |-> "none"]

Current == MonitorIndicators[run.i]

MonitorInit ==
    /\ cache = << >>
    /\ today = STALE_DAYS
    /\ run = NoRun
    /\ outbox = << >>
    /\ seen = [c \in ToSet(MonitorIndicators) |-> << >>]
    /\ RefreshOff
    /\ MergeOff
    /\ DashOff
    /\ SummaryOff
    /\ TaskOff

(* asyncio.run(monitor.run()), a run at a time.                            *)
MonStart ==
    /\ run.pc \in {"idle", "done", "raised"}
    /\ run' = [NoRun EXCEPT !.pc = "fetch"]
    /\ outbox' = << >>
    /\ today' \in {t \in Todays : t >= today}
    /\ UNCHANGED <<cache, seen>>
    /\ UNCHANGED <<vars, mergeVars, dashVars, summaryVars, taskVars>>

(* fetch_*(START_DATE), index.max().date(), iloc[-1], _check_staleness for *)
(* consumer credit, and _compare_new_data.  The fetch may raise; iloc[-1]  *)
(* of a frame without rows raises IndexError.                              *)
MonFetch ==
    /\ run.pc = "fetch"
    /\ \/ /\ run' = [run EXCEPT !.pc = "raised", !.error = "SourceUnavailable"]
          /\ cache' = cache
       \/ \E series \in MonitorSeries(Current) :
             IF series = NoSeries
             THEN /\ run' = [run EXCEPT !.pc = "raised", !.error = "IndexError"]
                  /\ cache' = cache
             ELSE LET latest == MaxDate(DOMAIN series)
                      cmp    == CompareNewData(cache, CacheFile(Current), latest)
                  IN  /\ run' = [run EXCEPT
                                    !.pc = "send_new",
                                    !.latest_date = latest,
                                    !.latest_value = series[latest],
                                    !.stale = (Current = "cc"
                                               /\ CheckStaleness(today, latest)),
                                    !.new = cmp.new]
                      /\ cache' = cmp.files
    /\ UNCHANGED <<today, outbox, seen>>
    /\ UNCHANGED <<vars, mergeVars, dashVars, summaryVars, taskVars>>

(* if new: await self.notifier.send(...)                                   *)
MonSendNew ==
    /\ run.pc = "send_new"
    /\ outbox' = IF run.new THEN Append(outbox, Message("new", Current)) ELSE outbox
    /\ run' = [run EXCEPT !.pc = IF Current = "cc" THEN "send_stale" ELSE "send_breach"]
    /\ UNCHANGED <<cache, today, seen>>
    /\ UNCHANGED <<vars, mergeVars, dashVars, summaryVars, taskVars>>

(* if cc_stale: await self.notifier.send(...)                              *)
MonSendStale ==
    /\ run.pc = "send_stale"
    /\ outbox' = IF run.stale THEN Append(outbox, Message("stale", Current)) ELSE outbox
    /\ run' = [run EXCEPT !.pc = "send_breach"]
    /\ UNCHANGED <<cache, today, seen>>
    /\ UNCHANGED <<vars, mergeVars, dashVars, summaryVars, taskVars>>

(* if the latest value breaches: await self.notifier.send(...); then the   *)
(* next indicator, or the end of run.                                      *)
MonSendBreach ==
    /\ run.pc = "send_breach"
    /\ outbox' = IF Breach(Current, run.latest_value, cfg)
                 THEN Append(outbox, Message("breach", Current)) ELSE outbox
    /\ run' = IF run.i < Len(MonitorIndicators)
              THEN [run EXCEPT !.pc = "fetch", !.i = run.i + 1]
              ELSE [run EXCEPT !.pc = "done"]
    /\ seen' = [seen EXCEPT ![Current] = <<run.latest_date>>]
    /\ UNCHANGED <<cache, today>>
    /\ UNCHANGED <<vars, mergeVars, dashVars, summaryVars, taskVars>>

MonitorNext ==
    \/ MonStart
    \/ MonFetch
    \/ MonSendNew
    \/ MonSendStale
    \/ MonSendBreach

MonitorSpec == MonitorInit /\ [][MonitorNext]_allVars

(* The card make_threshold_cards shows for an indicator, and what it says  *)
(* of a value.                                                             *)
CardOf(c) ==
    LET cards == ThresholdCards(Config)
    IN  cards[CHOOSE k \in DOMAIN cards : cards[k].Indicator = c]

BeyondCard(c, v) ==
    \/ CardOf(c).Direction = "<" /\ v < CardOf(c).Value
    \/ CardOf(c).Direction = ">" /\ v > CardOf(c).Value

BreachAlerts(c) == {k \in DOMAIN outbox : outbox[k] = Message("breach", c)}

(* The section of an indicator has just ended: its alerts are out.         *)
SectionEnded ==
    \/ run.pc = "done"
    \/ run.pc = "fetch" /\ run.i > 1

Processed == IF run.pc = "done" THEN Len(MonitorIndicators) ELSE run.i - 1

(* C19: when run has gone through an indicator, it has sent one breach     *)
(* alert for it if its latest value is beyond the threshold in the         *)
(* direction its card shows (below for consumer credit and sentiment,      *)
(* above for the high-yield spread and NFCI), and none otherwise, none in  *)
(* particular at a value equal to the threshold; and it has sent none for  *)
(* an indicator it has not gone through yet.                               *)
C19_BreachAlerts ==
    /\ SectionEnded =>
          LET c == MonitorIndicators[Processed]
          IN  /\ BeyondCard(c, run.latest_value) => Cardinality(BreachAlerts(c)) = 1
              /\ ~BeyondCard(c, run.latest_value) => BreachAlerts(c) = {}
              /\ run.latest_value = Threshold(c) => BreachAlerts(c) = {}
    /\ run.pc \in {"fetch", "send_new", "send_stale", "send_breach", "raised"} =>
          \A j \in run.i .. Len(MonitorIndicators) :
              BreachAlerts(MonitorIndicators[j]) = {}

C19_Witness ==
    /\ run.pc = "done"
    /\ run.latest_value = SENTIMENT_THRESHOLD
    /\ BreachAlerts("sent") = {}
    /\ BreachAlerts("cc") # {}
    /\ BreachAlerts("hy") # {}
    /\ BreachAlerts("nf") = {}

(* C20: the step of run that calls _compare_new_data finds new data        *)
(* exactly when the indicator's cache file does not exist or holds another *)
(* text than the latest date, and either way leaves the file holding the   *)
(* latest date, and the other files as they were.                          *)
C20_CompareNewData ==
    [][(run.pc = "fetch" /\ run'.pc = "send_new") =>
          LET f == CacheFile(Current)
          IN  /\ run'.new <=>
                    (f \notin DOMAIN cache \/ cache[f] # DateText(run'.latest_date))
              /\ f \in DOMAIN cache'
              /\ cache'[f] = DateText(run'.latest_date)
              /\ \A g \in DOMAIN cache' \ {f} :
                    g \in DOMAIN cache /\ cache'[g] = cache[g]]_allVars

C20_Witness ==
    /\ run.pc = "send_new"
    /\ Current = "hy"
    /\ ~run.new
    /\ run.latest_date = 1
    /\ cache[CacheFile("hy")] = DateText(1)
    /\ Message("new", "cc") \in ToSet(outbox)

StaleAlerts(c) == {k \in DOMAIN outbox : outbox[k] = Message("stale", c)}

NewAlerts(c) == {k \in DOMAIN outbox : outbox[k] = Message("new", c)}

(* run is past the stale alert of consumer credit and still holds its      *)
(* latest date.                                                            *)
StaleDecided ==
    \/ run.pc = "send_breach" /\ run.i = 1
    \/ run.pc = "fetch" /\ run.i = 2

(* C22: once run is past the stale alert of consumer credit, it has sent   *)
(* one stale alert if today is more than STALE_DAYS days after the latest  *)
(* observation and none otherwise, none in particular at exactly           *)
(* STALE_DAYS days, whether or not it sent the new-data and breach alerts; *)
(* and it sends no stale alert for another indicator.                      *)
C22_Staleness ==
    /\ StaleDecided =>
          /\ today - run.latest_date > STALE_DAYS => Cardinality(StaleAlerts("cc")) = 1
          /\ today - run.latest_date <= STALE_DAYS => StaleAlerts("cc") = {}
          /\ today - run.latest_date = STALE_DAYS => StaleAlerts("cc") = {}
    /\ run.pc \in {"fetch", "send_new", "send_stale"} /\ run.i = 1 =>
          StaleAlerts("cc") = {}
    /\ \A c \in ToSet(MonitorIndicators) \ {"cc"} : StaleAlerts(c) = {}

C22_Witness ==
    /\ run.pc = "fetch"
    /\ run.i = 2
    /\ today - run.latest_date = STALE_DAYS + 1
    /\ Cardinality(StaleAlerts("cc")) = 1
    /\ NewAlerts("cc") = {}
    /\ BreachAlerts("cc") = {}

(* run is past the new-data alert of the indicator it is at, and not yet   *)
(* at the next one.                                                        *)
NewDecided == run.pc \in {"send_stale", "send_breach"}

(* C23: in runs that follow one another, once run is past the new-data     *)
(* alert of an indicator it has sent one such alert if no earlier run read *)
(* the indicator or the last one that did found another latest date, and   *)
(* none if that run found the same latest date; and it sends none for an   *)
(* indicator it has not reached.                                           *)
C23_OncePerRelease ==
    /\ NewDecided =>
          /\ (seen[Current] = << >> \/ seen[Current] # <<run.latest_date>>)
                => Cardinality(NewAlerts(Current)) = 1
          /\ seen[Current] = <<run.latest_date>> => NewAlerts(Current) = {}
    /\ run.pc \in {"fetch", "send_new", "raised"} =>
          \A j \in run.i .. Len(MonitorIndicators) :
              NewAlerts(MonitorIndicators[j]) = {}

C23_Witness ==
    /\ run.pc = "send_breach"
    /\ Current = "nf"
    /\ seen["nf"] = <<1>>
    /\ run.latest_date = 1
    /\ NewAlerts("nf") = {}
    /\ seen["hy"] = <<0>>
    /\ Cardinality(NewAlerts("hy")) = 1

----------------------------------------------------------------------------
(* send_summary of app.py, app_v9.py ("app") and app_v2.py: the button     *)
(* loads the data as the refresh does, and gives one message with the last *)
(* row to TelegramNotifier.send.                                           *)

SummaryVariants == {"app", "app_v2"}

FirstRow(t) == [c \in ToSet(t.columns) |-> t.data[c][1]]

(* latest = df.iloc[-1]                                                    *)
LastRow(t) == [c \in ToSet(t.columns) |-> t.data[c][Len(t.index)]]

(* msg: the cell of the last row for each column the revision formats; an  *)
(* absent cell prints as nan.                                              *)
SummaryText(v, t) == [c \in ToSet(Columns(v)) |-> LastRow(t)[c]]

SummaryUnguarded(v, t) ==
    <<[c \in ToSet(Columns(v)) |-> IF IsEmpty(t) THEN Absent ELSE LastRow(t)[c]]>>

(* The message send_summary composes: none when df.empty.                  *)
SummaryOf(v, t) == IF IsEmpty(t) THEN << >> ELSE <<SummaryText(v, t)>>

NotifierSendPropagates(ok) == [delivered |-> ok, raised |-> ~ok]

(* TelegramNotifier.send: bot.send_message delivers or raises, and what it *)
(* raises is caught and printed.                                           *)
NotifierSend(ok) == [delivered |-> ok, raised |-> FALSE]

SummaryInit ==
    /\ RefreshOff
    /\ status = "none"
    /\ telegram = << >>
    /\ MergeOff
    /\ DashOff
    /\ MonitorOff
    /\ TaskOff

(* A click of send_btn: the callback starts with load_data().              *)
Click(v) ==
    /\ pc = "idle"
    /\ variant' = v
    /\ pc' = "fetch"
    /\ telegram' = << >>
    /\ UNCHANGED <<fetched, failed, merged, indexMax, df, fig, table, error>>
    /\ UNCHANGED status
    /\ UNCHANGED <<mergeVars, dashVars, monitorVars, taskVars>>

(* load_data has returned df: the empty check, the message,                *)
(* asyncio.run(notifier.send(msg)) and the status returned.                *)
SendSummary ==
    /\ pc = "chart"
    /\ LET msg == SummaryOf(variant, df)
       IN  IF msg = << >>
           THEN /\ status' = "unavailable"
                /\ telegram' = telegram
                /\ pc' = "return"
                /\ error' = error
           ELSE \E ok \in BOOLEAN :
                   LET out == NotifierSend(ok)
                   IN  /\ telegram' = Append(telegram,
                                         [text |-> msg[1], delivered |-> out.delivered])
                       /\ IF out.raised
                          THEN /\ status' = status
                               /\ pc' = "raised"
                               /\ error' = "TelegramError"
                          ELSE /\ status' = "sent"
                               /\ pc' = "return"
                               /\ error' = error
    /\ UNCHANGED <<variant, fetched, failed, merged, indexMax, df, fig, table>>
    /\ UNCHANGED <<mergeVars, dashVars, monitorVars, taskVars>>

SummaryNext ==
    \/ \E v \in SummaryVariants : Click(v)
    \/ FetchOk
    \/ FetchFail
    \/ Merge
    \/ Window
    \/ SendSummary
    \/ Return
    \/ Abort

SummarySpec == SummaryInit /\ [][SummaryNext]_allVars

(* send_summary is about to return its status; df is what load_data gave.  *)
SummaryDone == pc = "return"

(* C26: a click of the button gives no message to the notifier and returns *)
(* the status "Data unavailable" when load_data returned a table without   *)
(* rows, and gives exactly one message and returns the status "sent" when  *)
(* the table has rows; nothing is sent before load_data has returned, nor  *)
(* when it raised.                                                         *)
C26_EmptySummary ==
    /\ SummaryDone /\ IsEmpty(df) => telegram = << >> /\ status = "unavailable"
    /\ SummaryDone /\ ~IsEmpty(df) => Len(telegram) = 1 /\ status = "sent"
    /\ pc \in {"fetch", "merge", "window", "chart", "raised"} => telegram = << >>
    /\ Len(telegram) <= 1

C26_Witness ==
    /\ SummaryDone
    /\ variant = "app"
    /\ Len(fetched) = Len(AllColumns)
    /\ IsEmpty(df)
    /\ df.columns = AllColumns
    /\ telegram = << >>
    /\ status = "unavailable"

(* C28: when load_data returned a table with rows, its last row is at the  *)
(* latest date of all the series, and holds for every indicator with an    *)
(* observation its most recent one, also when that is older than the       *)
(* window cutoff, and no value for an indicator without observations;      *)
(* these are the cells send_summary puts in its message.                   *)
C28_CarryIn ==
    SummaryDone /\ ~IsEmpty(df) =>
        LET last == Len(df.index)
        IN  /\ Len(fetched) = Len(Columns(variant))
            /\ df.index[last] = MaxDate(InputDates)
            /\ \A i \in DOMAIN fetched :
                  LET c == Columns(variant)[i]
                  IN  /\ fetched[i] # NoSeries =>
                            df.data[c][last]
                              = <<fetched[i][MaxDate(DOMAIN fetched[i])]>>
                      /\ fetched[i] = NoSeries => df.data[c][last] = Absent
                      /\ telegram[1].text[c] = df.data[c][last]

C28_Witness ==
    /\ SummaryDone
    /\ variant = "app"
    /\ df.index = <<RetentionYears + 1>>
    /\ DOMAIN fetched[1] = {0}
    /\ fetched[1][0] = CREDIT_THRESHOLD + 1
    /\ telegram[1].text["cc"] = <<CREDIT_THRESHOLD + 1>>
    /\ telegram[1].text["hy"] = <<HY_SPREAD_THRESHOLD>>
    /\ telegram[1].text["vix"] = Absent

----------------------------------------------------------------------------
(* The callers of TelegramNotifier.send when the bot may fail to deliver.  *)
(* The process is the dashboard of app.py with its send_summary (no run),  *)
(* or the monitor launched again and again with one CreditMonitor.run, or  *)
(* an event loop given two runs that overlap.  FRED holds the dates        *)
(* published so far, the same for every indicator.  The loop may switch    *)
(* coroutines where run awaits the notifier; fetch, iloc[-1],              *)
(* _check_staleness and _compare_new_data have no await between them.      *)

MaxFailures == 1

TaskIds == {"first", "second"}

IndicatorOf(r) == MonitorIndicators[r.i]

(* What bot.send_message may do: deliver, or raise while it still may.     *)
Outcomes == IF failures < MaxFailures THEN BOOLEAN ELSE {TRUE}

(* The coroutine goes on after the alerts of its indicator.                *)
NextSection(r) ==
    IF r.i < Len(MonitorIndicators)
    THEN [r EXCEPT !.pc = "fetch", !.i = r.i + 1]
    ELSE [r EXCEPT !.pc = "done"]

(* await self.notifier.send(...) in r: where r is once send has returned,  *)
(* or raised.                                                              *)
AfterSend(r, out, then) ==
    IF out.raised
    THEN [r EXCEPT !.pc = "raised", !.error = "TelegramError"]
    ELSE then

NotifierInit ==
    /\ source = 0
    /\ calls = << >>
    /\ layout = << >>
    /\ cfg = Config
    /\ cache = << >>
    /\ today = STALE_DAYS + 1
    /\ run = << >>
    /\ outbox = << >>
    /\ seen = << >>
    /\ tasks \in {[t \in ids |-> NoRun] : ids \in {{}, {"first"}, TaskIds}}
    /\ newlog = [c \in ToSet(MonitorIndicators) |-> << >>]
    /\ failures = 0
    /\ status = "none"
    /\ telegram = << >>
    /\ RefreshOff
    /\ MergeOff

(* The event loop starts a monitor.run() it was given.                     *)
TaskStart(t) ==
    /\ t \in DOMAIN tasks
    /\ tasks[t].pc = "idle"
    /\ tasks' = [tasks EXCEPT ![t] = [NoRun EXCEPT !.pc = "fetch"]]
    /\ UNCHANGED <<newlog, failures>>
    /\ UNCHANGED <<vars, mergeVars, dashVars, monitorVars, summaryVars>>

(* asyncio.run(monitor.run()) is over, the run has returned or raised, and *)
(* the monitor is launched again later with the same cache directory.  A   *)
(* loop given two runs at once is followed to their end.                   *)
Relaunch ==
    /\ \E t \in TaskIds :
          DOMAIN tasks = {t} /\ tasks[t].pc \in {"done", "raised"}
    /\ tasks' = [t \in DOMAIN tasks |-> NoRun]
    /\ UNCHANGED <<newlog, failures>>
    /\ UNCHANGED <<vars, mergeVars, dashVars, monitorVars, summaryVars>>

(* fetch_*(START_DATE), index.max().date(), iloc[-1], _check_staleness for *)
(* consumer credit, and _compare_new_data, in one go.                      *)
TaskFetch(t) ==
    /\ t \in DOMAIN tasks
    /\ tasks[t].pc = "fetch"
    /\ LET r      == tasks[t]
           c      == IndicatorOf(r)
           series == SourceSeries(c, source)
       IN  \/ /\ tasks' = [tasks EXCEPT ![t] =
                              [r EXCEPT !.pc = "raised", !.error = "SourceUnavailable"]]
              /\ cache' = cache
           \/ IF series = NoSeries
              THEN /\ tasks' = [tasks EXCEPT ![t] =
                                   [r EXCEPT !.pc = "raised", !.error = "IndexError"]]
                   /\ cache' = cache
              ELSE LET latest == MaxDate(DOMAIN series)
                       cmp    == CompareNewData(cache, CacheFile(c), latest)
                   IN  /\ tasks' = [tasks EXCEPT ![t] =
                                       [r EXCEPT
                                          !.pc = "send_new",
                                          !.latest_date = latest,
                                          !.latest_value = series[latest],
                                          !.stale = (c = "cc"
                                                     /\ CheckStaleness(today, latest)),
                                          !.new = cmp.new]]
                       /\ cache' = cmp.files
    /\ UNCHANGED <<newlog, failures>>
    /\ UNCHANGED <<today, run, outbox, seen>>
    /\ UNCHANGED <<vars, mergeVars, dashVars, summaryVars>>

(* if new: await self.notifier.send(...)                                   *)
TaskSendNew(t) ==
    /\ t \in DOMAIN tasks
    /\ tasks[t].pc = "send_new"
    /\ LET r    == tasks[t]
           c    == IndicatorOf(r)
           then == [r EXCEPT !.pc = IF c = "cc" THEN "send_stale" ELSE "send_breach"]
       IN  IF r.new
           THEN \E ok \in Outcomes :
                   LET out == NotifierSend(ok)
                   IN  /\ newlog' = [newlog EXCEPT ![c] =
                                        Append(@, [date      |-> r.latest_date,
                                                   delivered |-> out.delivered])]
                       /\ failures' = IF out.delivered THEN failures ELSE failures + 1
                       /\ tasks' = [tasks EXCEPT ![t] = AfterSend(r, out, then)]
           ELSE /\ tasks' = [tasks EXCEPT ![t] = then]
                /\ UNCHANGED <<newlog, failures>>
    /\ UNCHANGED <<vars, mergeVars, dashVars, monitorVars, summaryVars>>

(* if cc_stale: await self.notifier.send(...)                              *)
TaskSendStale(t) ==
    /\ t \in DOMAIN tasks
    /\ tasks[t].pc = "send_stale"
    /\ LET r    == tasks[t]
           then == [r EXCEPT !.pc = "send_breach"]
       IN  IF r.stale
           THEN \E ok \in Outcomes :
                   LET out == NotifierSend(ok)
                   IN  /\ failures' = IF out.delivered THEN failures ELSE failures + 1
                       /\ tasks' = [tasks EXCEPT ![t] = AfterSend(r, out, then)]
           ELSE /\ tasks' = [tasks EXCEPT ![t] = then]
                /\ failures' = failures
    /\ UNCHANGED newlog
    /\ UNCHANGED <<vars, mergeVars, dashVars, monitorVars, summaryVars>>

(* if the latest value breaches: await self.notifier.send(...); then the   *)
(* next indicator, or the end of run.                                      *)
TaskSendBreach(t) ==
    /\ t \in DOMAIN tasks
    /\ tasks[t].pc = "send_breach"
    /\ LET r == tasks[t]
       IN  IF Breach(IndicatorOf(r), r.latest_value, cfg)
           THEN \E ok \in Outcomes :
                   LET out == NotifierSend(ok)
                   IN  /\ failures' = IF out.delivered THEN failures ELSE failures + 1
                       /\ tasks' = [tasks EXCEPT ![t] = AfterSend(r, out, NextSection(r))]
           ELSE /\ tasks' = [tasks EXCEPT ![t] = NextSection(r)]
                /\ failures' = failures
    /\ UNCHANGED newlog
    /\ UNCHANGED <<vars, mergeVars, dashVars, monitorVars, summaryVars>>

(* send_summary of app.py on what FRED holds: a click of the button.  When *)
(* load_data or the notifier raises, the page keeps the status it shows.   *)
ClickSummary ==
    /\ tasks = << >>
    /\ LET msg == SummaryOf("app", LoadData(Fetches(source)))
       IN  IF msg = << >>
           THEN /\ status' = "unavailable"
                /\ telegram' = << >>
                /\ failures' = failures
           ELSE \E ok \in Outcomes :
                   LET out == NotifierSend(ok)
                   IN  /\ telegram' = <<[text |-> msg[1], delivered |-> out.delivered]>>
                       /\ failures' = IF out.delivered THEN failures ELSE failures + 1
                       /\ status' = IF out.raised THEN status ELSE "sent"
    /\ UNCHANGED <<tasks, newlog>>
    /\ UNCHANGED <<vars, mergeVars, dashVars, monitorVars>>

NotifierNext ==
    \/ Release
    \/ \E t \in TaskIds : TaskStart(t)
    \/ Relaunch
    \/ \E t \in TaskIds : TaskFetch(t)
    \/ \E t \in TaskIds : TaskSendNew(t)
    \/ \E t \in TaskIds : TaskSendStale(t)
    \/ \E t \in TaskIds : TaskSendBreach(t)
    \/ ClickSummary

NotifierSpec == NotifierInit /\ [][NotifierNext]_allVars

(* The new-data alerts for indicator c and latest date d given to the      *)
(* notifier so far, and the runs about to give one.                        *)
Logged(c, d) == {k \in DOMAIN newlog[c] : newlog[c][k].date = d}

Pending(c, d) ==
    {t \in DOMAIN tasks :
        /\ tasks[t].pc = "send_new"
        /\ tasks[t].new
        /\ IndicatorOf(tasks[t]) = c
        /\ tasks[t].latest_date = d}

(* C24: a run about to send a new-data alert has already written the       *)
(* indicator's marker (with one run at a time, the marker holds the very   *)
(* date the alert is about); and when the bot failed to deliver the        *)
(* new-data alert of an indicator for a latest date, no run, this one or a *)
(* later one, gives or is about to give the notifier another alert for     *)
(* that indicator and date.                                                *)
C24_MarkerBeforeSend ==
    /\ \A t \in DOMAIN tasks :
          (tasks[t].pc = "send_new" /\ tasks[t].new) =>
              LET f == CacheFile(IndicatorOf(tasks[t]))
              IN  /\ f \in DOMAIN cache
                  /\ DOMAIN tasks = {t} => cache[f] = DateText(tasks[t].latest_date)
    /\ \A c \in ToSet(MonitorIndicators) : \A k \in DOMAIN newlog[c] :
          ~newlog[c][k].delivered =>
              /\ Logged(c, newlog[c][k].date) = {k}
              /\ Pending(c, newlog[c][k].date) = {}

C24_Witness ==
    /\ DOMAIN tasks = {"first"}
    /\ newlog["cc"] = <<[date |-> 0, delivered |-> FALSE]>>
    /\ tasks["first"].pc = "send_stale"
    /\ tasks["first"].latest_date = 0
    /\ ~tasks["first"].new
    /\ cache[CacheFile("cc")] = DateText(0)

(* C25: of the runs of one event loop, at most one reports new data for an *)
(* indicator and a latest date: counting the runs about to send the        *)
(* new-data alert and the alerts already given to the notifier, there is   *)
(* never more than one for the same indicator and date.                    *)
C25_OverlappingRuns ==
    \A c \in ToSet(MonitorIndicators) : \A d \in 0 .. (MaxReleases - 1) :
        Cardinality(Pending(c, d)) + Cardinality(Logged(c, d)) <= 1

C25_Witness ==
    /\ DOMAIN tasks = TaskIds
    /\ tasks["first"].pc = "send_new"
    /\ tasks["second"].pc = "send_new"
    /\ IndicatorOf(tasks["first"]) = "hy"
    /\ IndicatorOf(tasks["second"]) = "hy"
    /\ tasks["first"].latest_date = tasks["second"].latest_date
    /\ tasks["second"].new
    /\ ~tasks["first"].new
    /\ Cardinality(Logged("cc", 0)) = 1

(* C27: no run ever ends on an error of the bot: a run that raised did so  *)
(* in a fetch or on a series without rows; and whenever send_summary gave  *)
(* a message to the notifier the page shows the status "sent", whether the *)
(* bot delivered the message or not.                                       *)
C27_FailureInvisible ==
    /\ \A t \in DOMAIN tasks :
          /\ tasks[t].error \in {"none", "SourceUnavailable", "IndexError"}
          /\ tasks[t].pc = "raised" => tasks[t].error # "none"
    /\ telegram # << >> => status = "sent"

C27_Witness ==
    /\ DOMAIN tasks = {"first"}
    /\ tasks["first"].pc = "done"
    /\ failures = 1
    /\ newlog["cc"] = <<[date |-> 0, delivered |-> FALSE]>>
    /\ newlog["hy"] = <<[date |-> 0, delivered |-> TRUE]>>
    /\ newlog["sent"] = <<[date |-> 0, delivered |-> TRUE]>>

====
